---- MODULE Spec2Model ----
(***************************************************************************)
(* Model of app/pkg/analysis.py: the PagePool (an asyncio.Condition        *)
(* guarding a list of pages and a busy set), the fetch_page extraction     *)
(* session that borrows a page, the tasks that call them, and              *)
(* analyze_music_url with its helpers check_login, wait_for_login and      *)
(* load_cookies_from_file.                                                 *)
(*                                                                         *)
(* One step of the model is what one asyncio task runs between two         *)
(* suspension points (an await that really yields): lock acquisition on a  *)
(* free lock, the loop over the pool, set_result, notify and return do not *)
(* yield; awaiting new_page, goto, text_content, wait_for, close, a held   *)
(* lock or the condition does.                                             *)
(***************************************************************************)
EXTENDS Naturals, Sequences, FiniteSets

\* ------------------------------------------------------------- bounds
\* Tasks that call get_page and release themselves on one shared pool.
NumCallers == 3
\* Concurrent fetch_page sessions on one shared pool.
NumSessions == 2
\* Largest pool capacity tried (max_pages ranges over 1..MaxCapacity).
MaxCapacity == 2
\* Largest timeout given to wait_for_login (it ranges over 0..MaxTimeout).
MaxTimeout == 3
\* Longest time a check_login call takes, and the longest a sleep overruns.
MaxDelay == 1
\* Line 191: the pause between two polls.
SleepUnit == 1
\* Most cookies in a cookie file.
MaxCookies == 2

Callers == 1..NumCallers
Sessions == 1..NumSessions
Tasks == Callers \cup Sessions
NoTask == 0
NoPage == 0
\* No response URL (a future without a value).
NoUrl == [nav |-> NoTask, path |-> ""]
\* fetch_page's return value None.
None == [some |-> FALSE, song_name |-> "", artist_name |-> "", mp3_url |-> NoUrl]

\* No cookie file was given.
NoFile == [ok |-> FALSE, cookies |-> <<>>]

\* Cookie names a context can hold: the two login markers and another one.
CookieNames == {"MUSIC_U", "__csrf", "NMTID"}

\* Paths of the responses a navigation can cause.
Paths == {"a.mp3", "b.m4a", "c.js"}
\* filter_func arguments: no filter (None), a filter that is always true,
\* the media filter of analyze_music_url (lines 266-268).
Matchers == {"none", "always", "media"}

VARIABLES
    scenario,   \* who uses the pool: "pool": tasks calling get_page and
                \* release; "fetch": concurrent fetch_page sessions; "solo":
                \* one fetch_page session, with every filter and response;
                \* "analyze": one analyze_music_url call
    cookies,    \* names of the cookies of the browser context
    analysis,   \* how analyze_music_url ended, and the value it returned
    browser,    \* the browser of analyze_music_url: "open" or "closed"
    login,      \* what the last check_login call returned, and by which branch
    now,        \* wait_for_login: time.time() - start_time
    wtimeout,   \* wait_for_login: its timeout argument
    waited,     \* what wait_for_login returned
    cookieFile, \* the cookie file: whether it can be read, and its cookies
    loaded,     \* what load_cookies_from_file returned
    doc,        \* per page, the session whose navigation loaded the document
                \* the page shows
    max_pages,  \* PagePool.max_pages
    pool,       \* PagePool.pool: the list of pages, in creation order
    busy,       \* PagePool.busy
    closed,     \* pages on which close() has completed
    lockOwner,  \* the task holding the condition's lock (NoTask: free)
    lockQ,      \* tasks queued on the lock, first in first served
    condQ,      \* tasks suspended in condition.wait()
    pc,         \* where each task is suspended
    ra,         \* which caller get_page/release returns to
    page,       \* each task's local variable page
    fut,        \* each session's result_future
    matcher,    \* each session's filter_func
    seen,       \* history: the distinct URLs the session's filter accepted
                \* while the session ran, in delivery order
    song,       \* each session's song_name
    artist,     \* each session's artist_name
    result,     \* what fetch_page returned (None, or the result dict)
    failure,    \* which branch logged the failure
    listeners,  \* per page, the sessions whose on_response is registered
    releases    \* history: busy.remove calls made for each session's page

poolVars == <<max_pages, pool, busy, closed>>
lockVars == <<lockOwner, lockQ, condQ>>
sessVars == <<fut, matcher, seen, song, artist, listeners>>
outVars  == <<result, failure>>
histVars == <<releases>>
anVars == <<cookies, analysis, browser>>
auxVars == <<login, now, wtimeout, waited, cookieFile, loaded, doc>>
vars == <<scenario, auxVars, anVars, poolVars, lockVars, pc, ra, page, sessVars, outVars, histVars>>

Range(s) == {s[i] : i \in 1..Len(s)}

Pending == [st |-> "pending", url |-> NoUrl]
Unset == [st |-> "unset", url |-> NoUrl]
Cancelled == [st |-> "cancelled", url |-> NoUrl]
Resolved(u) == [st |-> "done", url |-> u]

\* asyncio.Future.done(): resolved or cancelled.
FutDone(f) == f.st \in {"done", "cancelled"}

\* ------------------------------------------------------------ PagePool

\* Pages of the pool that are not checked out (the test of line 38).
FreePages == {h \in Range(pool) : h \notin busy}

\* Mutant of FirstFree: the loop returns the first page without the busy test.
FirstFree_anyPage == pool[1]

\* The page the loop of lines 37-40 stops at: the first free one in list order.
FirstFree ==
    pool[CHOOSE i \in 1..Len(pool) :
            /\ pool[i] \notin busy
            /\ \A j \in 1..(i - 1) : pool[j] \in busy]

\* Mutant of CanCreate: the capacity test off by one.
CanCreate_offByOne == Len(pool) <= max_pages

\* Line 43: room for one more page.
CanCreate == Len(pool) < max_pages

\* The page object context.new_page() returns: one never seen before.
NewPage == Len(pool) + Cardinality(closed \ Range(pool)) + 1

\* asyncio.Lock.release(): the lock passes to the first queued task, which
\* continues when it is next scheduled; nobody can overtake it.
AfterUnlock ==
    IF lockQ = <<>> THEN [owner |-> NoTask, q |-> <<>>]
                    ELSE [owner |-> Head(lockQ), q |-> Tail(lockQ)]

\* Condition.notify(): the first task suspended in wait(), if any.
Notified == IF condQ = <<>> THEN NoTask ELSE Head(condQ)

\* get_page hands page h to task p; the caller r runs on to its next await:
\* fetch_page creates its future, registers on_response and starts goto
\* (lines 96-115); analyze_music_url starts goto on the login page (line
\* 254); a direct caller keeps the page.
Acquire(p, h, r) ==
    /\ page' = [page EXCEPT ![p] = h]
    /\ IF r = "fetch"
          THEN /\ fut' = [fut EXCEPT ![p] = Pending]
               /\ listeners' = [listeners EXCEPT ![h] = @ \cup {p}]
               /\ pc' = [pc EXCEPT ![p] = "goto"]
          ELSE /\ pc' = [pc EXCEPT ![p] = IF r = "login" THEN "an_goto" ELSE "hold"]
               /\ UNCHANGED <<fut, listeners>>

\* Lines 36-50, run by p with the lock held.
GetPageBody(p, r) ==
    IF FreePages # {}
    THEN \* lines 37-40: reuse a free page
         /\ busy' = busy \cup {FirstFree}
         /\ lockOwner' = AfterUnlock.owner
         /\ lockQ' = AfterUnlock.q
         /\ UNCHANGED <<pool, condQ>>
         /\ Acquire(p, FirstFree, r)
    ELSE IF CanCreate
    THEN \* lines 43-44: await new_page(), the lock stays held
         /\ lockOwner' = p
         /\ pc' = [pc EXCEPT ![p] = "gp_new"]
         /\ UNCHANGED <<pool, busy, lockQ, condQ, page, fut, listeners>>
    ELSE \* line 50: condition.wait() releases the lock and suspends
         /\ condQ' = Append(condQ, p)
         /\ lockOwner' = AfterUnlock.owner
         /\ lockQ' = AfterUnlock.q
         /\ pc' = [pc EXCEPT ![p] = "gp_wait"]
         /\ UNCHANGED <<pool, busy, page, fut, listeners>>

\* Line 35, async with self.condition, entered by p while the lock is held
\* by `held` (NoTask: free). asyncio.Lock is not reentrant: a task that
\* already holds the lock queues behind itself.
GetPageEnter(p, r, held) ==
    IF held = NoTask
    THEN GetPageBody(p, r)
    ELSE /\ lockOwner' = held
         /\ lockQ' = Append(lockQ, p)
         /\ pc' = [pc EXCEPT ![p] = "gp_lock"]
         /\ UNCHANGED <<pool, busy, condQ, page, fut, listeners>>

\* A task queued at line 35 is given the lock and runs lines 36-50.
GetPageLocked(p) ==
    /\ pc[p] = "gp_lock"
    /\ lockOwner = p
    /\ p \notin Range(lockQ)
    /\ GetPageBody(p, ra[p])
    /\ UNCHANGED <<scenario, auxVars, anVars, max_pages, closed, ra, matcher, seen, song,
                   artist, outVars, histVars>>

\* Lines 44-47: new_page() completes; the page joins the pool, busy.
NewPageDone(p) ==
    /\ pc[p] = "gp_new"
    /\ pool' = Append(pool, NewPage)
    /\ busy' = busy \cup {NewPage}
    /\ lockOwner' = AfterUnlock.owner
    /\ lockQ' = AfterUnlock.q
    /\ Acquire(p, NewPage, ra[p])
    /\ UNCHANGED <<scenario, auxVars, anVars, max_pages, closed, condQ, ra, matcher, seen,
                   song, artist, outVars, histVars>>

\* Lines 50-51: a notified waiter is scheduled. wait() first takes the lock
\* back (queueing if it is held), then line 51 calls get_page again from
\* inside the async with block, the lock still held by p.
CondWake(p) ==
    /\ pc[p] = "gp_woken"
    /\ IF lockOwner = NoTask
          THEN GetPageEnter(p, ra[p], p)
          ELSE /\ lockQ' = Append(lockQ, p)
               /\ pc' = [pc EXCEPT ![p] = "gp_relock"]
               /\ UNCHANGED <<pool, busy, lockOwner, condQ, page, fut, listeners>>
    /\ UNCHANGED <<scenario, auxVars, anVars, max_pages, closed, ra, matcher, seen, song,
                   artist, outVars, histVars>>

\* wait() of a notified waiter is given the lock; line 51 follows.
CondRelocked(p) ==
    /\ pc[p] = "gp_relock"
    /\ lockOwner = p
    /\ p \notin Range(lockQ)
    /\ GetPageEnter(p, ra[p], p)
    /\ UNCHANGED <<scenario, auxVars, anVars, max_pages, closed, ra, matcher, seen, song,
                   artist, outVars, histVars>>

\* release(h) returns to caller r of task p, and the waiter w it notified
\* (if any) becomes runnable: fetch_page's finally block ends the session; a
\* direct caller is free to call again; a caller that passed a handle it
\* does not hold ("stray") has made its last call; analyze_music_url goes
\* on to line 271.
Released(p, h, r, w) ==
    /\ pc' = [q \in Tasks |->
                IF q = p THEN (CASE r = "fetch" -> "done"
                                 [] r = "stray" -> "done"
                                 [] r = "login" -> "an_fetch"
                                 [] OTHER -> "idle")
                ELSE IF q = w THEN "gp_woken"
                ELSE pc[q]]
    /\ page' = [page EXCEPT ![p] = IF r = "direct" THEN NoPage ELSE h]

\* Lines 62-63, run by p with the lock held. set.remove raises KeyError
\* when the page is no longer busy; the async with block then unlocks and
\* the error leaves release.
ReleaseBody(p, h, r) ==
    IF h \in busy
    THEN /\ busy' = busy \ {h}
         /\ condQ' = IF condQ = <<>> THEN <<>> ELSE Tail(condQ)
         /\ lockOwner' = AfterUnlock.owner
         /\ lockQ' = AfterUnlock.q
         /\ Released(p, h, r, Notified)
         /\ releases' = IF r = "fetch" THEN [releases EXCEPT ![p] = @ + 1]
                                       ELSE releases
    ELSE /\ lockOwner' = AfterUnlock.owner
         /\ lockQ' = AfterUnlock.q
         /\ pc' = [pc EXCEPT ![p] = "raised"]
         /\ UNCHANGED <<busy, condQ, releases, page>>

\* Mutant of ReleaseEnter: the test of line 60 left out.
ReleaseEnter_noTest(p, h, r) ==
    IF lockOwner = NoTask
    THEN ReleaseBody(p, h, r)
    ELSE /\ lockQ' = Append(lockQ, p)
         /\ pc' = [pc EXCEPT ![p] = "rel_lock"]
         /\ UNCHANGED <<busy, lockOwner, condQ, releases, page>>

\* Lines 60-61: release(h) called by p.
ReleaseEnter(p, h, r) ==
    IF h \notin busy
    THEN \* not busy: nothing happens
         /\ Released(p, h, r, NoTask)
         /\ UNCHANGED <<busy, lockOwner, lockQ, condQ, releases>>
    ELSE IF lockOwner = NoTask
    THEN ReleaseBody(p, h, r)
    ELSE /\ lockQ' = Append(lockQ, p)
         /\ pc' = [pc EXCEPT ![p] = "rel_lock"]
         /\ UNCHANGED <<busy, lockOwner, condQ, releases, page>>

\* A task queued at line 61 is given the lock and runs lines 62-63.
ReleaseLocked(p) ==
    /\ pc[p] = "rel_lock"
    /\ lockOwner = p
    /\ ReleaseBody(p, page[p], ra[p])
    /\ UNCHANGED <<scenario, auxVars, anVars, max_pages, pool, closed, ra, sessVars, outVars>>

\* The tasks of the scenario.
Active ==
    CASE scenario = "pool"  -> Callers
      [] scenario = "fetch" -> Sessions
      [] OTHER              -> {1}

\* Where a task may call close_all from: analyze_music_url calls it in its
\* finally block; other users once they are between calls.
MayClose(p) ==
    IF scenario = "analyze" THEN pc[p] = "an_ret" ELSE pc[p] \in {"idle", "done"}

\* The filters and the response paths the scenario draws from: concurrent
\* sessions use a filter that accepts and one that does not, and one path.
MatchersOf == IF scenario = "fetch" THEN {"none", "always"} ELSE Matchers
PathsOf == IF scenario = "fetch" THEN {"a.mp3"} ELSE Paths

\* Some task is inside close_all, or close_all has ended.
Closing ==
    \E q \in Tasks :
        pc[q] \in {"ca_close", "ca_done", "ca_raised", "an_end", "an_raised"}

\* No other task is inside a pool operation or a session. close_all is
\* called at shutdown, when the callers have stopped (analyze_music_url
\* calls it from its finally block, lines 286-287).
Quiescent(p) == \A q \in Tasks \ {p} : pc[q] \in {"idle", "hold", "done"}

\* The page the loop of lines 70-71 is closing: the first not yet closed.
NextToClose ==
    pool[CHOOSE i \in 1..Len(pool) :
            /\ pool[i] \notin closed
            /\ \A j \in 1..(i - 1) : pool[j] \in closed]

\* Lines 69-73: close_all takes the lock; with no page to close it clears
\* the (empty) state at once, else it awaits the first close().
CloseAllEnter(p) ==
    /\ p \in Active
    /\ MayClose(p)
    /\ ~Closing
    /\ Quiescent(p)
    /\ lockOwner = NoTask
    /\ IF pool = <<>>
          THEN /\ busy' = {}
               /\ pc' = [pc EXCEPT ![p] = "ca_done"]
               /\ UNCHANGED lockOwner
          ELSE /\ lockOwner' = p
               /\ pc' = [pc EXCEPT ![p] = "ca_close"]
               /\ UNCHANGED busy
    /\ UNCHANGED <<scenario, auxVars, anVars, max_pages, pool, closed, lockQ, condQ, ra, page,
                   sessVars, outVars, histVars>>

\* Mutant of LastToClose: the loop of lines 70-71 stops after one page.
LastToClose_afterOne == TRUE

\* The loop of lines 70-71 ends with the page being closed.
LastToClose == Range(pool) \subseteq closed \cup {NextToClose}

\* Lines 70-73: one page.close() ends. When it raises, the error leaves
\* close_all through the async with block, lines 72-73 not run; after the
\* last page the pool and the busy set are cleared.
CloseNext(p, ok) ==
    /\ pc[p] = "ca_close"
    /\ IF ~ok
          THEN /\ lockOwner' = AfterUnlock.owner
               /\ lockQ' = AfterUnlock.q
               /\ pc' = [pc EXCEPT ![p] = "ca_raised"]
               /\ UNCHANGED <<pool, busy, closed>>
          ELSE /\ closed' = closed \cup {NextToClose}
               /\ IF LastToClose
                     THEN /\ pool' = <<>>
                          /\ busy' = {}
                          /\ lockOwner' = AfterUnlock.owner
                          /\ lockQ' = AfterUnlock.q
                          /\ pc' = [pc EXCEPT ![p] = "ca_done"]
                     ELSE UNCHANGED <<pool, busy, lockOwner, lockQ, pc>>
    /\ UNCHANGED <<scenario, auxVars, anVars, max_pages, condQ, ra, page, sessVars, outVars,
                   histVars>>

\* ------------------------------------------------- direct pool callers

\* A task calls pool.get_page(context) itself (as line 249 does).
CallGetPage(p) ==
    /\ scenario = "pool"
    /\ p \in Callers
    /\ pc[p] = "idle"
    /\ ~Closing
    /\ ra' = [ra EXCEPT ![p] = "direct"]
    /\ GetPageEnter(p, "direct", lockOwner)
    /\ UNCHANGED <<scenario, auxVars, anVars, max_pages, closed, matcher, seen, song, artist,
                   outVars, histVars>>

\* The task returns the page it holds (as line 263 does).
CallRelease(p) ==
    /\ pc[p] = "hold"
    /\ ~Closing
    /\ ReleaseEnter(p, page[p], ra[p])
    /\ UNCHANGED <<scenario, auxVars, anVars, max_pages, pool, closed, ra, sessVars, outVars>>

\* Handles a caller may pass to release without holding them: a page of
\* the pool that is free (released before), or a page the pool never had.
StrayHandles == (Range(pool) \cup {NewPage}) \ busy

\* A task calls release on a handle that is not checked out; it is the
\* task's last call.
StrayRelease(p, h) ==
    /\ scenario = "pool"
    /\ p \in Callers
    /\ pc[p] = "idle"
    /\ ~Closing
    /\ h \in StrayHandles
    /\ ra' = [ra EXCEPT ![p] = "stray"]
    /\ ReleaseEnter(p, h, "stray")
    /\ UNCHANGED <<scenario, auxVars, anVars, max_pages, pool, closed, sessVars, outVars>>

\* ---------------------------------------------------------- fetch_page

\* Lines 266-268 and 104: what filter_func says of a response. No filter
\* never matches; an exception raised by the filter is caught at line 107.
Matches(m, u) ==
    CASE m = "always" -> TRUE
      [] m = "media"  -> u.path \in {"a.mp3", "b.m4a"}
      [] OTHER        -> FALSE

\* Mutant of OnResponse: the done() test of line 100 left out and the
\* future overwritten, so that the last match wins.
OnResponse_lastWins(f, m, u) ==
    IF f.st = "cancelled" THEN f
    ELSE IF Matches(m, u) THEN Resolved(u)
    ELSE f

\* Mutant of OnResponse: line 100 tests for a result only, so that a
\* cancelled future is settled by the next match.
OnResponse_noCancelTest(f, m, u) ==
    IF f.st = "done" THEN f
    ELSE IF Matches(m, u) THEN Resolved(u)
    ELSE f

\* Mutant of OnResponse: the filter's verdict of line 104 ignored.
OnResponse_noFilter(f, m, u) ==
    IF FutDone(f) THEN f ELSE Resolved(u)

\* Lines 98-108: on_response of a session whose future is f.
OnResponse(f, m, u) ==
    IF FutDone(f) THEN f
    ELSE IF Matches(m, u) THEN Resolved(u)
    ELSE f

\* Lines 130-134: the dict fetch_page returns.
ResultDict(s, a, u) ==
    [some |-> TRUE, song_name |-> s, artist_name |-> a, mp3_url |-> u]

\* Mutant of Finish: the page is released on the success path only (no
\* finally block).
Finish_noFinally(p, val, kind) ==
    /\ result' = [result EXCEPT ![p] = val]
    /\ failure' = [failure EXCEPT ![p] = kind]
    /\ song' = [song EXCEPT ![p] = ""]
    /\ artist' = [artist EXCEPT ![p] = ""]
    /\ IF kind = "OK"
          THEN ReleaseEnter(p, page[p], "fetch")
          ELSE /\ pc' = [pc EXCEPT ![p] = "done"]
               /\ UNCHANGED <<busy, lockOwner, lockQ, condQ, releases, page>>

\* A return statement of fetch_page (lines 130, 137, 140) followed by the
\* finally block, line 143. The locals of the call end with it; the future
\* and the filter live on in the registered on_response.
Finish(p, val, kind) ==
    /\ result' = [result EXCEPT ![p] = val]
    /\ failure' = [failure EXCEPT ![p] = kind]
    /\ song' = [song EXCEPT ![p] = ""]
    /\ artist' = [artist EXCEPT ![p] = ""]
    /\ ReleaseEnter(p, page[p], "fetch")

\* Line 129 reached with song name s and artist name a: wait_for returns
\* at once when the future is already resolved, else the session suspends.
EnterAwait(p, s, a) ==
    IF fut[p].st = "done"
    THEN Finish(p, ResultDict(s, a, fut[p].url), "OK")
    ELSE /\ pc' = [pc EXCEPT ![p] = "await"]
         /\ song' = [song EXCEPT ![p] = s]
         /\ artist' = [artist EXCEPT ![p] = a]
         /\ UNCHANGED <<busy, lockOwner, lockQ, condQ, releases, outVars, page>>

\* fetch_page(pool, context, url, m, timeout) is called: line 95.
StartFetch(p, m) ==
    /\ scenario \in {"fetch", "solo"}
    /\ p \in Active
    /\ m \in MatchersOf
    /\ pc[p] = "idle"
    /\ ~Closing
    /\ ra' = [ra EXCEPT ![p] = "fetch"]
    /\ matcher' = [matcher EXCEPT ![p] = m]
    /\ GetPageEnter(p, "fetch", lockOwner)
    /\ UNCHANGED <<scenario, auxVars, anVars, max_pages, closed, seen, song, artist, outVars,
                   histVars>>

\* Sessions between page.on (line 112) and their return.
Running == {"goto", "song", "artist", "await"}

\* The distinct accepted URLs of a session, u added.
Seen(sq, u) == IF u \in Range(sq) THEN sq ELSE Append(sq, u)

\* Session o's navigation can cause a response on its page: the session is
\* running, or it has returned and the page still shows the document it
\* loaded (the pool hands the page on as it is, lines 37-40, and the next
\* goto replaces the document only when it ends).
Emits(o) ==
    \/ pc[o] \in Running
    \/ /\ ra[o] = "fetch"
       /\ page[o] \in Range(pool) \ closed
       /\ doc[page[o]] = o

\* The browser delivers a response caused by session o's navigation: every
\* on_response registered on the page runs (page.on is never undone).
Respond(o, path) ==
    /\ Emits(o)
    /\ path \in PathsOf
    /\ fut' = [l \in Tasks |->
                 IF l \in listeners[page[o]]
                    THEN OnResponse(fut[l], matcher[l], [nav |-> o, path |-> path])
                    ELSE fut[l]]
    /\ seen' = [l \in Tasks |->
                  IF /\ l \in listeners[page[o]]
                     /\ pc[l] \in Running
                     /\ Matches(matcher[l], [nav |-> o, path |-> path])
                     THEN Seen(seen[l], [nav |-> o, path |-> path])
                     ELSE seen[l]]
    /\ UNCHANGED <<scenario, auxVars, anVars, poolVars, lockVars, pc, ra, page, matcher,
                   song, artist, listeners, outVars, histVars>>

\* Mutant of GotoDone: the error of goto ends the session without the
\* finally block.
GotoDone_noRelease(p, ok) ==
    /\ pc[p] = "goto"
    /\ IF ok
          THEN /\ pc' = [pc EXCEPT ![p] = "song"]
               /\ UNCHANGED outVars
          ELSE /\ pc' = [pc EXCEPT ![p] = "done"]
               /\ result' = [result EXCEPT ![p] = None]
               /\ failure' = [failure EXCEPT ![p] = "ERROR"]
    /\ doc' = IF ok THEN [doc EXCEPT ![page[p]] = p] ELSE doc
    /\ UNCHANGED <<scenario, login, now, wtimeout, waited, cookieFile, loaded,
                   anVars, poolVars, lockVars, ra, page, sessVars, histVars,
                   song, artist>>

\* Line 115: goto ends: the page shows the document of the session's URL,
\* or goto raised (lines 138-140).
GotoDone(p, ok) ==
    /\ pc[p] = "goto"
    /\ IF ok
          THEN /\ pc' = [pc EXCEPT ![p] = "song"]
               /\ UNCHANGED <<busy, lockOwner, lockQ, condQ, releases, outVars,
                              song, artist, page>>
          ELSE Finish(p, None, "ERROR")
    /\ doc' = IF ok THEN [doc EXCEPT ![page[p]] = p] ELSE doc
    /\ UNCHANGED <<scenario, login, now, wtimeout, waited, cookieFile, loaded,
                   anVars, max_pages, pool, closed, ra, fut, matcher, seen,
                   listeners>>

\* Line 122: the song name is read, or text_content raises (line 125) and
\* line 129 follows.
ScrapeSong(p, ok) ==
    /\ pc[p] = "song"
    /\ IF ok
          THEN /\ song' = [song EXCEPT ![p] = "Song"]
               /\ pc' = [pc EXCEPT ![p] = "artist"]
               /\ UNCHANGED <<busy, lockOwner, lockQ, condQ, releases, outVars,
                              artist, page>>
          ELSE EnterAwait(p, song[p], artist[p])
    /\ UNCHANGED <<scenario, auxVars, anVars, max_pages, pool, closed, ra, fut, matcher, seen,
                   listeners>>

\* Line 123: the artist name is read, or text_content raises; line 129
\* follows either way.
ScrapeArtist(p, ok) ==
    /\ pc[p] = "artist"
    /\ EnterAwait(p, song[p], IF ok THEN "Artist" ELSE artist[p])
    /\ UNCHANGED <<scenario, auxVars, anVars, max_pages, pool, closed, ra, fut, matcher, seen,
                   listeners>>

\* Lines 129-134: the awaited future has been resolved.
AwaitDone(p) ==
    /\ pc[p] = "await"
    /\ fut[p].st = "done"
    /\ Finish(p, ResultDict(song[p], artist[p], fut[p].url), "OK")
    /\ UNCHANGED <<scenario, auxVars, anVars, max_pages, pool, closed, ra, fut, matcher, seen,
                   listeners>>

\* Mutant of Timeout: the timeout path returns what was scraped so far.
Timeout_partial(p) ==
    /\ pc[p] = "await"
    /\ fut[p].st = "pending"
    /\ fut' = [fut EXCEPT ![p] = Cancelled]
    /\ Finish(p, ResultDict(song[p], artist[p], NoUrl), "TIMEOUT")
    /\ UNCHANGED <<scenario, auxVars, anVars, max_pages, pool, closed, ra, matcher, seen,
                   listeners>>

\* Lines 129, 135-137: the timeout elapses with the future unresolved;
\* wait_for cancels the future.
Timeout(p) ==
    /\ pc[p] = "await"
    /\ fut[p].st = "pending"
    /\ fut' = [fut EXCEPT ![p] = Cancelled]
    /\ Finish(p, None, "TIMEOUT")
    /\ UNCHANGED <<scenario, auxVars, anVars, max_pages, pool, closed, ra, matcher, seen,
                   listeners>>

\* --------------------------------------------------- analyze_music_url

\* Mutant of CheckLogin: both login cookies required.
CheckLogin_both(cs) == {"MUSIC_U", "__csrf"} \subseteq cs

\* Lines 153-165: a login cookie is among the context's cookies.
CheckLogin(cs) == cs \cap {"MUSIC_U", "__csrf"} # {}

\* Lines 147-168: check_login ends. context.cookies() returned (ok) the
\* cookies cs, or raised: "yes" is True (line 162), "no" is False (line
\* 165), "failed" is False by the except branch (line 168).
CheckLoginReturn(ok, cs) ==
    IF ~ok THEN "failed" ELSE IF CheckLogin(cs) THEN "yes" ELSE "no"

Returns(v) == [st |-> "returned", val |-> v]
Raises == [st |-> "raised", val |-> None]
NotEnded == [st |-> "-", val |-> None]

\* Lines 273-285: None unless fetch_page returned a dict with a non-empty
\* mp3_url, else the three fields of that dict.
AnalysisData(data) ==
    IF ~data.some \/ data.mp3_url.path = ""
    THEN None
    ELSE [some |-> TRUE, song_name |-> data.song_name,
          artist_name |-> data.artist_name, mp3_url |-> data.mp3_url]

\* Lines 246-249: analyze_music_url makes its pool of one page and asks it
\* for the page of the login check.
AnStart(p) ==
    /\ scenario = "analyze"
    /\ p \in Active
    /\ pc[p] = "idle"
    /\ ra' = [ra EXCEPT ![p] = "login"]
    /\ GetPageEnter(p, "login", lockOwner)
    /\ UNCHANGED <<scenario, auxVars, anVars, max_pages, closed, matcher, seen, song,
                   artist, outVars, histVars>>

\* Line 254: goto on the login page ends; an error leaves the try block for
\* the finally block of line 286.
LoginGotoDone(p, ok) ==
    /\ pc[p] = "an_goto"
    /\ pc' = [pc EXCEPT ![p] = IF ok THEN "an_check" ELSE "an_ret"]
    /\ analysis' = IF ok THEN analysis ELSE Raises
    /\ UNCHANGED <<scenario, auxVars, cookies, browser, poolVars, lockVars, ra, page,
                   sessVars, outVars, histVars>>

\* Mutant of LoginChecked: the answer of check_login is not tested.
LoginChecked_noGate(p, ok) ==
    /\ pc[p] = "an_check"
    /\ login' = CheckLoginReturn(ok, cookies)
    /\ ReleaseEnter(p, page[p], "login")
    /\ UNCHANGED <<scenario, now, wtimeout, waited, cookieFile, loaded, doc, anVars,
                   max_pages, pool, closed, ra, sessVars, outVars>>

\* Lines 256-263: context.cookies() ends (check_login answers False when it
\* raises, line 166). Not logged in: return None, the page still busy;
\* logged in: the page is released.
LoginChecked(p, ok) ==
    /\ pc[p] = "an_check"
    /\ login' = CheckLoginReturn(ok, cookies)
    /\ IF login' = "yes"
          THEN /\ ReleaseEnter(p, page[p], "login")
               /\ UNCHANGED analysis
          ELSE /\ analysis' = Returns(None)
               /\ pc' = [pc EXCEPT ![p] = "an_ret"]
               /\ UNCHANGED <<busy, lockOwner, lockQ, condQ, releases, page>>
    /\ UNCHANGED <<scenario, now, wtimeout, waited, cookieFile, loaded, doc,
                   cookies, browser, max_pages, pool, closed, ra, sessVars,
                   outVars>>

\* Line 271: fetch_page is called with the media filter.
AnFetch(p) ==
    /\ pc[p] = "an_fetch"
    /\ ra' = [ra EXCEPT ![p] = "fetch"]
    /\ matcher' = [matcher EXCEPT ![p] = "media"]
    /\ GetPageEnter(p, "fetch", lockOwner)
    /\ UNCHANGED <<scenario, auxVars, anVars, max_pages, closed, seen, song, artist,
                   outVars, histVars>>

\* Lines 271-285: fetch_page has returned; the return value is settled and
\* the finally block follows.
AnResult(p) ==
    /\ scenario = "analyze"
    /\ pc[p] = "done"
    /\ analysis' = Returns(AnalysisData(result[p]))
    /\ pc' = [pc EXCEPT ![p] = "an_ret"]
    /\ UNCHANGED <<scenario, auxVars, cookies, browser, poolVars, lockVars, ra, page,
                   sessVars, outVars, histVars>>

\* Line 288: close_all has returned and browser.close() ends: the browser
\* is closed and analyze_music_url ends as settled before, or close()
\* raises and its error leaves analyze_music_url.
BrowserClosed(p, ok) ==
    /\ scenario = "analyze"
    /\ pc[p] = "ca_done"
    /\ browser' = IF ok THEN "closed" ELSE browser
    /\ pc' = [pc EXCEPT ![p] = IF ok THEN "an_end" ELSE "an_raised"]
    /\ UNCHANGED <<scenario, auxVars, cookies, analysis, poolVars, lockVars, ra, page,
                   sessVars, outVars, histVars>>

\* ------------------------------------------------------ wait_for_login

\* Mutant of Polls: the loop test of line 186 with <= for <.
Polls_inclusive(n, t) == n <= t

\* Line 186: the loop goes on while the elapsed time n is below timeout t.
Polls(n, t) == n < t

\* Lines 185-187: wait_for_login(page, t) is called; start_time is taken
\* and the loop test made, then the first check_login call is awaited.
WaitForLogin(p, t) ==
    /\ scenario = "login"
    /\ p \in Active
    /\ pc[p] = "idle"
    /\ wtimeout' = t
    /\ now' = 0
    /\ IF Polls(0, t)
          THEN /\ pc' = [pc EXCEPT ![p] = "wl_check"]
               /\ UNCHANGED waited
          ELSE /\ pc' = [pc EXCEPT ![p] = "wl_end"]
               /\ waited' = "no"
    /\ UNCHANGED <<scenario, login, cookieFile, loaded, doc, anVars, poolVars,
                   lockVars, ra, page, sessVars, outVars, histVars>>

\* Lines 187-191: the check_login call ends, d time units after it began:
\* True is returned at once, else the sleep begins.
PollDone(p, ok, d) ==
    /\ pc[p] = "wl_check"
    /\ login' = CheckLoginReturn(ok, cookies)
    /\ now' = now + d
    /\ IF login' = "yes"
          THEN /\ waited' = "yes"
               /\ pc' = [pc EXCEPT ![p] = "wl_end"]
          ELSE /\ pc' = [pc EXCEPT ![p] = "wl_sleep"]
               /\ UNCHANGED waited
    /\ UNCHANGED <<scenario, wtimeout, cookieFile, loaded, doc, anVars, poolVars,
                   lockVars, ra, page, sessVars, outVars, histVars>>

\* Lines 191, 186, 193-194: the sleep ends, SleepUnit + d time units after
\* it began; the loop test is made again.
SleepDone(p, d) ==
    /\ pc[p] = "wl_sleep"
    /\ now' = now + SleepUnit + d
    /\ IF Polls(now', wtimeout)
          THEN /\ pc' = [pc EXCEPT ![p] = "wl_check"]
               /\ UNCHANGED waited
          ELSE /\ pc' = [pc EXCEPT ![p] = "wl_end"]
               /\ waited' = "no"
    /\ UNCHANGED <<scenario, login, wtimeout, cookieFile, loaded, doc, anVars,
                   poolVars, lockVars, ra, page, sessVars, outVars, histVars>>

\* While wait_for_login runs, the user logs in by hand or the site sets a
\* cookie: cookie c appears in the context.
CookieSet(c) ==
    /\ scenario = "login"
    /\ \E p \in Tasks : pc[p] \in {"wl_check", "wl_sleep"}
    /\ c \in CookieNames \ cookies
    /\ cookies' = cookies \cup {c}
    /\ UNCHANGED <<scenario, auxVars, analysis, browser, poolVars, lockVars, pc,
                   ra, page, sessVars, outVars, histVars>>

\* ---------------------------------------------- load_cookies_from_file

\* sameSite values Playwright accepts (line 214).
SameSiteOk == {"Strict", "Lax", "None"}
\* sameSite values found in cookie files: the accepted ones, and what
\* browser exports write besides.
SameSiteIn == SameSiteOk \cup {"no_restriction", "lax"}

\* The cookies a file can list: dicts with a name, and with or without a
\* sameSite and a storeId field.
FileCookies ==
    {c \in UNION {[{"name"} \cup o -> {"MUSIC_U", "NMTID", "0"} \cup SameSiteIn] :
                     o \in SUBSET {"sameSite", "storeId"}} :
        /\ c["name"] \in {"MUSIC_U", "NMTID"}
        /\ "sameSite" \in DOMAIN c => c["sameSite"] \in SameSiteIn
        /\ "storeId" \in DOMAIN c => c["storeId"] = "0"}

\* The lists of at most MaxCookies cookies.
CookieLists == UNION {[1..n -> FileCookies] : n \in 0..MaxCookies}

\* The cookie files: one that cannot be read or parsed, and the readable
\* ones.
CookieFiles == {NoFile} \cup {[ok |-> TRUE, cookies |-> l] : l \in CookieLists}

\* Mutant of NormalizeCookie: the storeId field is kept.
NormalizeCookie_keepStore(c) ==
    [f \in DOMAIN c |->
        IF f = "sameSite" /\ c[f] \notin SameSiteOk THEN "Lax" ELSE c[f]]

\* Lines 209-215: one cookie of the file, after the loop body.
NormalizeCookie(c) ==
    [f \in DOMAIN c \ {"storeId"} |->
        IF f = "sameSite" /\ c[f] \notin SameSiteOk THEN "Lax" ELSE c[f]]

\* Lines 201-221: what load_cookies_from_file returns for a file.
LoadCookies(file) ==
    IF ~file.ok THEN <<>>
    ELSE [i \in 1..Len(file.cookies) |-> NormalizeCookie(file.cookies[i])]

\* load_cookies_from_file(file_path) is called and returns.
LoadCookiesFromFile(p) ==
    /\ scenario = "cookies"
    /\ p \in Active
    /\ pc[p] = "idle"
    /\ loaded' = LoadCookies(cookieFile)
    /\ pc' = [pc EXCEPT ![p] = "lc_end"]
    /\ UNCHANGED <<scenario, login, now, wtimeout, waited, cookieFile, doc, anVars,
                   poolVars, lockVars, ra, page, sessVars, outVars, histVars>>

\* --------------------------------------------------------------- system

Init ==
    /\ scenario \in {"pool", "fetch", "solo", "analyze", "login", "cookies"}
    /\ max_pages \in (IF scenario \in {"pool", "fetch", "solo"} THEN 1..MaxCapacity
                                                                ELSE {1})
    /\ cookies \in (IF scenario \in {"analyze", "login"} THEN SUBSET CookieNames
                                                          ELSE {{}})
    /\ analysis = NotEnded
    /\ browser = "open"
    /\ login = "-"
    /\ now = 0
    /\ wtimeout = 0
    /\ waited = "-"
    /\ cookieFile \in (IF scenario = "cookies" THEN CookieFiles ELSE {NoFile})
    /\ loaded = <<>>
    /\ doc = [h \in 1..(MaxCapacity + 1) |-> NoTask]
    /\ pool = <<>>
    /\ busy = {}
    /\ closed = {}
    /\ lockOwner = NoTask
    /\ lockQ = <<>>
    /\ condQ = <<>>
    /\ pc = [p \in Tasks |-> "idle"]
    /\ ra = [p \in Tasks |-> "direct"]
    /\ page = [p \in Tasks |-> NoPage]
    /\ fut = [p \in Tasks |-> Unset]
    /\ matcher = [p \in Tasks |-> "none"]
    /\ seen = [p \in Tasks |-> <<>>]
    /\ song = [p \in Tasks |-> ""]
    /\ artist = [p \in Tasks |-> ""]
    /\ result = [p \in Tasks |-> None]
    /\ failure = [p \in Tasks |-> "-"]
    /\ listeners = [h \in 1..(MaxCapacity + 1) |-> {}]
    /\ releases = [p \in Tasks |-> 0]

Next ==
    \/ \E p \in Tasks : CallGetPage(p)
    \/ \E p \in Tasks : CallRelease(p)
    \/ \E p \in Tasks, h \in 1..(MaxCapacity + 1) : StrayRelease(p, h)
    \/ \E p \in Tasks : GetPageLocked(p)
    \/ \E p \in Tasks : NewPageDone(p)
    \/ \E p \in Tasks : CondWake(p)
    \/ \E p \in Tasks : CondRelocked(p)
    \/ \E p \in Tasks : ReleaseLocked(p)
    \/ \E p \in Tasks : CloseAllEnter(p)
    \/ \E p \in Tasks, ok \in BOOLEAN : CloseNext(p, ok)
    \/ \E p \in Tasks, m \in Matchers : StartFetch(p, m)
    \/ \E o \in Tasks, path \in Paths : Respond(o, path)
    \/ \E p \in Tasks, ok \in BOOLEAN : GotoDone(p, ok)
    \/ \E p \in Tasks, ok \in BOOLEAN : ScrapeSong(p, ok)
    \/ \E p \in Tasks, ok \in BOOLEAN : ScrapeArtist(p, ok)
    \/ \E p \in Tasks : AwaitDone(p)
    \/ \E p \in Tasks : Timeout(p)
    \/ \E p \in Tasks : AnStart(p)
    \/ \E p \in Tasks, ok \in BOOLEAN : LoginGotoDone(p, ok)
    \/ \E p \in Tasks, ok \in BOOLEAN : LoginChecked(p, ok)
    \/ \E p \in Tasks : AnFetch(p)
    \/ \E p \in Tasks : AnResult(p)
    \/ \E p \in Tasks, ok \in BOOLEAN : BrowserClosed(p, ok)
    \/ \E p \in Tasks, t \in 0..MaxTimeout : WaitForLogin(p, t)
    \/ \E p \in Tasks, ok \in BOOLEAN, d \in 0..MaxDelay : PollDone(p, ok, d)
    \/ \E p \in Tasks, d \in 0..MaxDelay : SleepDone(p, d)
    \/ \E c \in CookieNames : CookieSet(c)
    \/ \E p \in Tasks : LoadCookiesFromFile(p)

Spec == Init /\ [][Next]_vars

\* What the event loop guarantees: a task that can be resumed is resumed
\* (it was handed the lock, it was notified, the operation or the timer it
\* awaits ends). Calls by the pool's users and responses are not forced.
Resume(p) ==
    \/ GetPageLocked(p)
    \/ NewPageDone(p)
    \/ CondWake(p)
    \/ CondRelocked(p)
    \/ ReleaseLocked(p)
    \/ \E ok \in BOOLEAN : CloseNext(p, ok)
    \/ \E ok \in BOOLEAN : GotoDone(p, ok)
    \/ \E ok \in BOOLEAN : ScrapeSong(p, ok)
    \/ \E ok \in BOOLEAN : ScrapeArtist(p, ok)
    \/ AwaitDone(p)
    \/ Timeout(p)
    \/ \E ok \in BOOLEAN : LoginGotoDone(p, ok)
    \/ \E ok \in BOOLEAN : LoginChecked(p, ok)
    \/ AnFetch(p)
    \/ AnResult(p)
    \/ CloseAllEnter(p) /\ scenario = "analyze"
    \/ \E ok \in BOOLEAN : BrowserClosed(p, ok)
    \/ \E ok \in BOOLEAN, d \in 0..MaxDelay : PollDone(p, ok, d)
    \/ \E d \in 0..MaxDelay : SleepDone(p, d)

FairSpec == Spec /\ \A p \in Tasks : WF_vars(Resume(p))

\* A caller hands the page it holds to another task as well: two callers
\* now hold the same busy handle, and each will release it.
ShareHandle(p, q) ==
    /\ p \in Callers
    /\ q \in Callers
    /\ pc[p] = "hold"
    /\ pc[q] = "idle"
    /\ page' = [page EXCEPT ![q] = page[p]]
    /\ ra' = [ra EXCEPT ![q] = "direct"]
    /\ pc' = [pc EXCEPT ![q] = "hold"]
    /\ UNCHANGED <<scenario, auxVars, anVars, poolVars, lockVars, sessVars,
                   outVars, histVars>>

\* The pool used by callers that may release one handle twice.
RaceInit == Init /\ scenario = "pool"

RaceNext ==
    \/ \E p \in Tasks : CallGetPage(p)
    \/ \E p \in Tasks : CallRelease(p)
    \/ \E p, q \in Tasks : ShareHandle(p, q)
    \/ \E p \in Tasks : GetPageLocked(p)
    \/ \E p \in Tasks : NewPageDone(p)
    \/ \E p \in Tasks : CondWake(p)
    \/ \E p \in Tasks : CondRelocked(p)
    \/ \E p \in Tasks : ReleaseLocked(p)

RaceSpec == RaceInit /\ [][RaceNext]_vars

\* wait_for_login alone: the calls it awaits (check_login, sleep) end.
LoginInit == Init /\ scenario = "login"

LoginNext ==
    \/ \E p \in Tasks, t \in 0..MaxTimeout : WaitForLogin(p, t)
    \/ \E p \in Tasks, ok \in BOOLEAN, d \in 0..MaxDelay : PollDone(p, ok, d)
    \/ \E p \in Tasks, d \in 0..MaxDelay : SleepDone(p, d)
    \/ \E c \in CookieNames : CookieSet(c)

LoginFairSpec ==
    /\ LoginInit
    /\ [][LoginNext]_vars
    /\ \A p \in Tasks :
          /\ WF_vars(\E ok \in BOOLEAN, d \in 0..MaxDelay : PollDone(p, ok, d))
          /\ WF_vars(\E d \in 0..MaxDelay : SleepDone(p, d))

\* -------------------------------------------------------------- claims

\* Task p has been handed a page by get_page and has not yet released it.
Holds(p) ==
    pc[p] \in {"hold", "an_goto", "an_check", "goto", "song", "artist", "await",
               "rel_lock"}

\* The fetch_page call of task p has returned or is in its finally block.
Finished(p) == ra[p] = "fetch" /\ pc[p] \in {"rel_lock", "done"}

\* The fetch_page call of task p has returned.
Returned(p) ==
    ra[p] = "fetch" /\ pc[p] \in {"done", "ca_close", "ca_done", "ca_raised"}

\* C1: the pool never holds more than max_pages pages, and a page is added
\* only by a step that starts with no free page and fewer than max_pages
\* pages, one page at a time.
C1_PoolBounded ==
    /\ [](Len(pool) <= max_pages)
    /\ [][Len(pool') > Len(pool) =>
            /\ FreePages = {}
            /\ Len(pool) < max_pages
            /\ Len(pool') = Len(pool) + 1]_vars

\* C1 witness: a pool of capacity 2 is full, both pages are checked out and
\* a third caller is suspended in get_page.
C1_Witness ==
    /\ max_pages = 2
    /\ Len(pool) = 2
    /\ Cardinality(busy) = 2
    /\ condQ # <<>>

\* C2: a waiter woken by a release goes on to hold a page, or to wait for
\* the next release.
C2_WokenWaiterServed ==
    \A p \in Tasks :
        (pc[p] = "gp_woken") ~> (Holds(p) \/ pc[p] \in {"gp_wait", "gp_new"})

\* C3: with capacity 1 and two sessions whose filter accepts every response,
\* both sessions end with a result, unless a timeout or a navigation error
\* ends one of them.
C3_BothComplete ==
    []((/\ scenario = "fetch"
        /\ max_pages = 1
        /\ \A p \in {1, 2} : pc[p] # "idle" /\ matcher[p] = "always")
       => <>(\/ \A p \in {1, 2} : Returned(p) /\ result[p].some
             \/ \E p \in {1, 2} : failure[p] \in {"TIMEOUT", "ERROR"}))

\* C4: busy pages are pages of the pool, the pool lists no page twice, a
\* page handed out stays busy until released, and no two tasks hold the
\* same page at once.
C4_NoDoubleBorrow ==
    /\ busy \subseteq Range(pool)
    /\ \A i, j \in 1..Len(pool) : pool[i] = pool[j] => i = j
    /\ \A p \in Tasks : (Holds(p) /\ ~Closing) => page[p] \in busy
    /\ \A p, q \in Tasks : (Holds(p) /\ Holds(q) /\ page[p] = page[q]) => p = q

\* C4 witness: a task holds a page that an earlier session held and released.
C4_Witness ==
    \E p, q \in Tasks :
        /\ p # q
        /\ Holds(p)
        /\ pc[q] = "done"
        /\ ra[q] = "fetch"
        /\ page[q] = page[p]

\* C5: a session that has returned removed its page from busy exactly once,
\* the page is free in the pool when the session returns, and every busy
\* page belongs to a session that has not returned yet.
C5_ReleasedOnce ==
    /\ [](\A p \in Tasks : (ra[p] = "fetch" /\ pc[p] = "done") => releases[p] = 1)
    /\ []((scenario \in {"fetch", "solo"} /\ ~Closing) =>
            \A h \in busy : \E p \in Tasks : Holds(p) /\ page[p] = h)
    /\ [][\A p \in Tasks :
            (ra[p] = "fetch" /\ pc[p] # "done" /\ pc'[p] = "done") =>
                /\ page[p] \in Range(pool')
                /\ page[p] \notin busy'
                /\ releases'[p] = 1]_vars

\* C5 witness: one session ended by timeout and one by a navigation error,
\* both have returned and no page is busy.
C5_Witness ==
    \E p, q \in Tasks :
        /\ pc[p] = "done" /\ failure[p] = "TIMEOUT"
        /\ pc[q] = "done" /\ failure[q] = "ERROR"
        /\ page[p] = page[q]
        /\ busy = {}

\* C6: a session that ended without its filter accepting any response, and
\* not by a navigation error, ended by the timeout: its future is cancelled,
\* it logged the timeout and returned None.
C6_TimeoutFails ==
    \A p \in Tasks :
        (Finished(p) /\ seen[p] = <<>> /\ failure[p] # "ERROR") =>
            /\ fut[p].st = "cancelled"
            /\ failure[p] = "TIMEOUT"
            /\ result[p] = None

\* C6 witness: a session with the media filter has returned after a timeout.
C6_Witness ==
    \E p \in Tasks :
        /\ pc[p] = "done"
        /\ matcher[p] = "media"
        /\ failure[p] = "TIMEOUT"

\* C7: the future of a running session and the result of a finished one
\* carry the first URL the session's filter accepted, and a resolved future
\* never changes.
C7_FirstMatchWins ==
    /\ [](\A p \in Tasks :
            /\ (pc[p] \in Running /\ fut[p].st = "done") =>
                   (seen[p] # <<>> /\ fut[p].url = seen[p][1])
            /\ result[p].some =>
                   (seen[p] # <<>> /\ result[p].mp3_url = seen[p][1]))
    /\ [][\A p \in Tasks : fut[p].st = "done" => fut'[p] = fut[p]]_vars

\* C7 witness: a session returned a result after its filter had accepted
\* three different URLs.
C7_Witness ==
    \E p \in Tasks :
        /\ pc[p] = "done"
        /\ result[p].some
        /\ Len(seen[p]) = 3

\* C9: release of a handle that is not busy changes nothing in the pool, the
\* lock or the waiters, wakes nobody and returns without an error.
C9_StrayReleaseNoOp ==
    [][\A p \in Tasks :
         (ra[p] # "stray" /\ ra'[p] = "stray") =>
            /\ pc'[p] = "done"
            /\ \A q \in Tasks \ {p} : pc'[q] = pc[q]
            /\ UNCHANGED <<pool, busy, closed, lockOwner, lockQ, condQ>>]_vars

\* C8: a result comes only from a future resolved by a matching response.
\* Whenever fetch_page returns, it returns a dict exactly on the path where
\* the await of the future succeeded, and the dict's mp3_url is the URL the
\* future was resolved with, a URL the filter accepts; on the timeout and
\* error paths it returns None. Whenever analyze_music_url settles its
\* return value, the value is non-null only if fetch_page returned a dict
\* with a non-empty media URL, which the value carries; else it is None.
C8_ResultOnlyFromMatch ==
    [][/\ \A p \in Tasks :
            failure'[p] # failure[p] =>
                /\ result'[p].some <=> failure'[p] = "OK"
                /\ ~result'[p].some => result'[p] = None
                /\ result'[p].some =>
                       /\ fut[p].st = "done"
                       /\ fut[p].url # NoUrl
                       /\ Matches(matcher[p], fut[p].url)
                       /\ result'[p].mp3_url = fut[p].url
       /\ analysis' # analysis =>
            /\ analysis'.val.some =>
                   /\ analysis'.st = "returned"
                   /\ pc[1] = "done" /\ failure[1] = "OK"
                   /\ result[1].some
                   /\ result[1].mp3_url.path \in {"a.mp3", "b.m4a"}
                   /\ analysis'.val.mp3_url = result[1].mp3_url
            /\ ~analysis'.val.some => analysis'.val = None
      ]_vars

\* analyze_music_url has returned a non-null value.
C8_Witness ==
    /\ scenario = "analyze"
    /\ pc[1] = "an_end"
    /\ analysis.st = "returned"
    /\ analysis.val.some
    /\ analysis.val.mp3_url.path = "b.m4a"

\* C9 witness: a handle that is not busy was released while a caller was
\* suspended in get_page, and the caller is still suspended.
C9_Witness ==
    \E p \in Tasks :
        /\ ra[p] = "stray"
        /\ pc[p] = "done"
        /\ condQ # <<>>

\* C10: when close_all has returned the pool is empty and no page is busy,
\* and the step that ends close_all leaves every page of the pool closed.
C10_CloseAllClears ==
    /\ [](\A p \in Tasks : pc[p] = "ca_done" => (pool = <<>> /\ busy = {}))
    /\ [][\A p \in Tasks :
            (pc[p] # "ca_done" /\ pc'[p] = "ca_done") =>
                Range(pool) \subseteq closed']_vars

\* C10 witness: close_all has returned after closing two pages, one of
\* them still held by a caller.
C10_Witness ==
    \E p, q \in Tasks :
        /\ pc[p] = "ca_done"
        /\ Cardinality(closed) = 2
        /\ pc[q] = "hold"

\* A step in which a check_login call of task p ends.
CheckLoginEnds(p) == pc[p] \in {"an_check", "wl_check"} /\ pc'[p] # pc[p]

\* C11 as stated: check_login returns True exactly when the context holds a
\* cookie named MUSIC_U or __csrf.
C11_LoginIffMarker ==
    [][\A p \in Tasks :
         CheckLoginEnds(p) =>
            (login' = "yes" <=> ("MUSIC_U" \in cookies \/ "__csrf" \in cookies))]_vars

\* C11, amended: check_login returns True exactly when context.cookies()
\* returned and the cookies hold one named MUSIC_U or __csrf, whatever other
\* cookies there are; it returns False when neither is there, and when
\* context.cookies() raised.
C11_LoginIffMarkerRead ==
    [][\A p \in Tasks :
         CheckLoginEnds(p) =>
            /\ login' \in {"yes", "no", "failed"}
            /\ login' = "yes" <=>
                   /\ login' # "failed"
                   /\ "MUSIC_U" \in cookies \/ "__csrf" \in cookies
            /\ login' = "no" =>
                   /\ "MUSIC_U" \notin cookies
                   /\ "__csrf" \notin cookies]_vars

\* C11 witness: check_login returned True with __csrf and another cookie,
\* but no MUSIC_U, in the context.
C11_Witness ==
    /\ login = "yes"
    /\ cookies = {"__csrf", "NMTID"}

\* C13: wait_for_login ends, and with True or False: a poll begins only
\* while the elapsed time is below the timeout; a poll that returns True
\* ends the wait with True at once; the wait ends with True only from such
\* a poll, and with False only when the elapsed time has reached the
\* timeout and the last poll did not return True.
C13_WaitTerminates ==
    /\ [][\A p \in Tasks :
            /\ (pc[p] # "wl_check" /\ pc'[p] = "wl_check") => now' < wtimeout'
            /\ (pc[p] = "wl_check" /\ pc'[p] # "wl_check" /\ login' = "yes") =>
                   (pc'[p] = "wl_end" /\ waited' = "yes")
            /\ (pc[p] # "wl_end" /\ pc'[p] = "wl_end") =>
                   /\ waited' \in {"yes", "no"}
                   /\ waited' = "yes" <=> (pc[p] = "wl_check" /\ login' = "yes")
                   /\ waited' = "no" => (now' >= wtimeout' /\ login' # "yes")
          ]_vars
    /\ \A p \in Tasks : (pc[p] \in {"wl_check", "wl_sleep"}) ~> (pc[p] = "wl_end")

\* C13 witness: wait_for_login returned True later than one poll takes: a
\* poll that did not return True and a sleep came first.
C13_Witness ==
    /\ waited = "yes"
    /\ wtimeout = MaxTimeout
    /\ now = SleepUnit + MaxDelay
    /\ cookies = {"MUSIC_U"}

\* C12: load_cookies_from_file returns the cookies of the file in order,
\* each without its storeId field, with a sameSite value other than Strict,
\* Lax and None replaced by Lax, a sameSite value among them kept, and every
\* other field as in the file.
C12_CookiesNormalized ==
    \A p \in Tasks :
        (pc[p] = "lc_end" /\ cookieFile.ok) =>
            /\ Len(loaded) = Len(cookieFile.cookies)
            /\ \A i \in 1..Len(loaded) :
                  /\ "storeId" \notin DOMAIN loaded[i]
                  /\ DOMAIN loaded[i] = DOMAIN cookieFile.cookies[i] \ {"storeId"}
                  /\ \A f \in DOMAIN loaded[i] :
                        loaded[i][f] =
                            IF f # "sameSite" THEN cookieFile.cookies[i][f]
                            ELSE IF cookieFile.cookies[i][f] \in {"Strict", "Lax", "None"}
                            THEN cookieFile.cookies[i][f]
                            ELSE "Lax"

\* C12 witness: a file of two cookies was loaded, the first with a storeId
\* field and the sameSite value no_restriction, the second with the
\* sameSite value Strict.
C12_Witness ==
    /\ \E p \in Tasks : pc[p] = "lc_end"
    /\ cookieFile.ok
    /\ Len(cookieFile.cookies) = 2
    /\ DOMAIN cookieFile.cookies[1] = {"name", "sameSite", "storeId"}
    /\ cookieFile.cookies[1]["sameSite"] = "no_restriction"
    /\ DOMAIN cookieFile.cookies[2] = {"name", "sameSite"}
    /\ cookieFile.cookies[2]["sameSite"] = "Strict"
    /\ loaded = <<[name |-> cookieFile.cookies[1]["name"], sameSite |-> "Lax"],
                  cookieFile.cookies[2]>>

\* C14: a session whose goto fails logs the error and returns None; the step
\* leaves the pool's list and pages as they were; once the session has
\* returned, its page is in the pool, was removed from busy once, and is
\* busy only if another session has taken it since. A session that starts
\* after the failed one returned, with the lock free, is handed a page of
\* the pool, the failed session's when that is the first free one, and the
\* pool does not grow.
C14_NavigationErrorContained ==
    /\ [][\A p \in Tasks :
            (pc[p] = "goto" /\ failure'[p] = "ERROR") =>
                /\ result'[p] = None
                /\ pool' = pool
                /\ closed' = closed
                /\ pc'[p] \in {"done", "rel_lock"}]_vars
    /\ [](\A p \in Tasks :
            (pc[p] = "done" /\ ra[p] = "fetch" /\ failure[p] = "ERROR" /\ ~Closing) =>
                /\ result[p] = None
                /\ releases[p] = 1
                /\ page[p] \in Range(pool)
                /\ page[p] \in busy =>
                       \E q \in Tasks \ {p} : Holds(q) /\ page[q] = page[p])
    /\ [][\A p, q \in Tasks :
            (/\ pc[p] = "done" /\ ra[p] = "fetch" /\ failure[p] = "ERROR"
             /\ page[p] \notin busy
             /\ pc[q] = "idle" /\ pc'[q] = "goto") =>
                /\ pool' = pool
                /\ page'[q] \in Range(pool)
                /\ page'[q] \in busy'
                /\ page[p] = FirstFree => page'[q] = page[p]]_vars

\* C14 witness: a session failed in goto and returned; a later session ran
\* on the same page (a response of its navigation reached the observer the
\* failed session had left there) and returned a result, the pool still of
\* one page though it may hold two.
C14_Witness ==
    \E p, q \in Tasks :
        /\ p # q
        /\ max_pages = 2
        /\ Len(pool) = 1
        /\ pc[p] = "done" /\ failure[p] = "ERROR" /\ result[p] = None
        /\ fut[p] = Resolved([nav |-> q, path |-> "a.mp3"])
        /\ pc[q] = "done" /\ failure[q] = "OK" /\ result[q].some
        /\ page[q] = page[p]
        /\ busy = {}

\* C15: the two fields are scraped independently: whether or not the song
\* name was found, the artist name is scraped next; whether or not the
\* artist name was found, the session goes on to await its future (or
\* returns the result at once when the future is already resolved).
C15_ScrapesIndependent ==
    [][\A p \in Tasks :
         /\ (pc[p] = "song" /\ pc'[p] # "song") => pc'[p] = "artist"
         /\ (pc[p] = "artist" /\ pc'[p] # "artist") =>
                \/ pc'[p] = "await"
                \/ failure'[p] = "OK" /\ result'[p].some]_vars

\* The waiters a step notifies.
Woken == {q \in Tasks : pc[q] = "gp_wait" /\ pc'[q] = "gp_woken"}

\* A step that takes a page out of busy without emptying the pool: the
\* body of release.
ReleaseStep == busy' # busy /\ busy' \subseteq busy /\ pool' = pool

\* C16: a release of a busy handle takes that one handle out of busy and
\* notifies the first waiter when there is one, nobody else and nobody when
\* there is none; no other step notifies a waiter; and every notified
\* waiter proceeds: it leaves wait() and runs the acquisition again.
C16_ReleaseWakesOne ==
    /\ [][/\ ReleaseStep =>
                /\ Cardinality(busy \ busy') = 1
                /\ Woken = (IF condQ = <<>> THEN {} ELSE {Head(condQ)})
                /\ condQ' = (IF condQ = <<>> THEN <<>> ELSE Tail(condQ))
          /\ Woken # {} => ReleaseStep]_vars
    /\ \A p \in Tasks :
          (pc[p] = "gp_woken") ~> (pc[p] \notin {"gp_woken", "gp_relock", "gp_lock"})

\* C17: in analyze_music_url the extraction session (line 271 on) runs only
\* after check_login returned True; when it returned False the function
\* settles on None, no observer is ever registered and no navigation to the
\* target is made; the finally block follows every exit of the try block;
\* and when the function has returned, the pool is empty, its page closed
\* and the browser closed.
C17_LoginGate ==
    /\ [](scenario = "analyze" =>
            \A p \in Tasks :
                /\ (pc[p] = "an_fetch" \/ ra[p] = "fetch") => login = "yes"
                /\ (login \in {"no", "failed"} /\ pc[p] # "idle") =>
                       /\ analysis = Returns(None)
                       /\ ra[p] = "login"
                       /\ fut[p] = Unset
                       /\ \A h \in DOMAIN listeners : listeners[h] = {}
                       /\ \A h \in DOMAIN doc : doc[h] = NoTask
                /\ pc[p] = "an_end" =>
                       /\ pool = <<>>
                       /\ busy = {}
                       /\ page[p] \in closed
                       /\ browser = "closed")
    /\ [][\A p \in Tasks :
            (pc[p] = "an_ret" /\ pc'[p] # "an_ret") => pc'[p] = "ca_close"]_vars

\* C17 witness: check_login returned False with a cookie in the context
\* that is no login cookie; analyze_music_url returned None after closing
\* the page it still held and the browser.
C17_Witness ==
    /\ scenario = "analyze"
    /\ cookies = {"NMTID"}
    /\ login = "no"
    /\ pc[1] = "an_end"
    /\ analysis = Returns(None)
    /\ closed = {1}
    /\ browser = "closed"

\* C18: teardown failures are tolerated: close_all leaves its loop only by
\* finishing, whether or not a close() failed, and then the pool and the
\* busy set are empty; analyze_music_url then closes the browser and ends
\* with the outcome it had settled on.
C18_TeardownTolerated ==
    /\ [][\A p \in Tasks :
            /\ pc[p] = "ca_close" => pc'[p] \in {"ca_close", "ca_done"}
            /\ (scenario = "analyze" /\ pc[p] = "ca_done") =>
                   pc'[p] \in {"ca_done", "an_end"}]_vars
    /\ [](\A p \in Tasks : pc[p] \in {"ca_done", "an_end"} => (pool = <<>> /\ busy = {}))

\* C19: the media URL of a session's future and of its result comes from a
\* response caused by the session's own navigation.
C19_OwnNavigationOnly ==
    \A p \in Tasks :
        /\ (pc[p] \in Running /\ fut[p].st = "done") => fut[p].url.nav = p
        /\ result[p].some => result[p].mp3_url.nav = p

\* C20: release never raises: no release call ends with the KeyError of
\* busy.remove, also when two callers release the same busy handle while
\* the lock is held.
C20_ReleaseNeverRaises == \A p \in Tasks : pc[p] # "raised"

\* C21: once a session's await has timed out, its future stays cancelled
\* and its outcome stays the timeout with no result, whatever responses
\* its observer is given afterwards.
C21_LateResponseIgnored ==
    [][\A p \in Tasks :
         failure[p] = "TIMEOUT" =>
            /\ fut[p] = Cancelled
            /\ fut'[p] = Cancelled
            /\ failure'[p] = "TIMEOUT"
            /\ result'[p] = None]_vars

\* C21 witness: a session whose filter accepts every response timed out and
\* returned; a later session loaded its document in the same page, where
\* the first session's observer is still registered, and a response of that
\* navigation resolved the later session's future.
C21_Witness ==
    \E p, q \in Tasks :
        /\ p # q
        /\ matcher[p] = "always"
        /\ failure[p] = "TIMEOUT"
        /\ pc[p] = "done"
        /\ result[p] = None
        /\ fut[p] = Cancelled
        /\ page[q] = page[p]
        /\ p \in listeners[page[q]]
        /\ doc[page[q]] = q
        /\ fut[q] = Resolved([nav |-> q, path |-> "a.mp3"])

====
